---- MODULE Spec2Model ----
(***************************************************************************)
(* Model of src/lab2.py: the class AFD (a deterministic finite automaton   *)
(* with a partial transition table) and its four queries transition,       *)
(* final_state, derivation and accepted.                                   *)
(*                                                                         *)
(* State: the five fields of one AFD object (Q, Sigma, q0, F, delta), the  *)
(* delta argument its constructor was given, and the call being made on    *)
(* it with the value or error that call produced.                          *)
(***************************************************************************)
EXTENDS Integers, Sequences, FiniteSets, TLC

VARIABLES Q, Sigma, q0, F, delta, deltaArg, pc, call, result, memo

vars == <<Q, Sigma, q0, F, delta, deltaArg, pc, call, result, memo>>
afd == <<Q, Sigma, q0, F, delta>>

(***************************************************************************)
(* Bounds of the model.                                                    *)
(***************************************************************************)
MaxLen == 2        \* longest input sequence w of a query, general automata
MaxLenEj == 4      \* longest input sequence w on the predefined automaton
MaxTriples == 3    \* longest list of (q, a, q') triples given as delta

(***************************************************************************)
(* Labels.  Python's None is the string "None", which is no state label    *)
(* and no symbol of the universe below.                                    *)
(***************************************************************************)
None == "None"
Labels == {"q0", "q1"}
Symbols == {"0", "1"}
Targets == Labels \cup {None}

Words(n) == UNION {[1..k -> Symbols] : k \in 0..n}

(***************************************************************************)
(* AFD.__init__, lines 22-28: a delta given as a list of triples is folded *)
(* into a dict, one assignment per triple; a dict is stored as given.      *)
(***************************************************************************)
EmptyDict == [k \in {} |-> None]

\* A dict assignment that keeps an existing entry (setdefault).
DictSetFirst(d, k, v) ==
    [x \in (DOMAIN d) \cup {k} |-> IF x \in DOMAIN d THEN d[x] ELSE v]

\* d[k] = v
DictSet(d, k, v) ==
    [x \in (DOMAIN d) \cup {k} |-> IF x = k THEN v ELSE d[x]]

RECURSIVE DeltaLoop(_, _, _)
DeltaLoop(d, triples, i) ==
    IF i > Len(triples) THEN d
    ELSE DeltaLoop(DictSet(d, <<triples[i][1], triples[i][2]>>, triples[i][3]),
                   triples, i + 1)

ListArg(triples) == [shape |-> "list", triples |-> triples, map |-> EmptyDict]
DictArg(map) == [shape |-> "dict", triples |-> <<>>, map |-> map]

AFD_init_delta(arg) ==
    IF arg.shape = "list" THEN DeltaLoop(EmptyDict, arg.triples, 1)
    ELSE arg.map

(***************************************************************************)
(* Values of calls and results.  Every result has the same fields:         *)
(*   kind  "ok", or the error raised: "SymbolNotInAlphabet" (line 58/84),  *)
(*         "UndefinedTransition" (line 62/88)                              *)
(*   state the state returned by transition / final_state                  *)
(*   trace the list returned by derivation                                 *)
(*   acc   the boolean returned by accepted                                *)
(***************************************************************************)
NoOverride == [none |-> TRUE, set |-> {}]
Override(S) == [none |-> FALSE, set |-> S]

NoCall == [op |-> "none", q |-> None, a |-> None, w |-> <<>>, Fov |-> NoOverride]
NoResult == [kind |-> "none", state |-> None, trace |-> <<>>, acc |-> FALSE]
NoMemo == [set |-> FALSE, later |-> FALSE, call |-> NoCall, result |-> NoResult]

OkState(s) == [kind |-> "ok", state |-> s, trace |-> <<>>, acc |-> FALSE]
OkTrace(t) == [kind |-> "ok", state |-> None, trace |-> t, acc |-> FALSE]
OkBool(b) == [kind |-> "ok", state |-> None, trace |-> <<>>, acc |-> b]
Raise(e) == [kind |-> e, state |-> None, trace |-> <<>>, acc |-> FALSE]

(***************************************************************************)
(* AFD.transition, line 41: self.delta.get((q, a), None)                   *)
(***************************************************************************)
\* self.delta.get((q, a), q): a missing entry read as a self-loop.
transition_selfloop(q, a) ==
    IF <<q, a>> \in DOMAIN delta THEN delta[<<q, a>>] ELSE q

transition(q, a) ==
    IF <<q, a>> \in DOMAIN delta THEN delta[<<q, a>>] ELSE None

(***************************************************************************)
(* AFD.final_state, lines 54-66.                                           *)
(***************************************************************************)
\* The loop with the two checks in the other order.
RECURSIVE final_state_loop_swapped(_, _, _)
final_state_loop_swapped(current_state, w, i) ==
    IF i > Len(w) THEN OkState(current_state)
    ELSE LET symbol == w[i]
             next_state == transition(current_state, symbol)
         IN  IF next_state = None THEN Raise("UndefinedTransition")
             ELSE IF symbol \notin Sigma THEN Raise("SymbolNotInAlphabet")
             ELSE final_state_loop_swapped(next_state, w, i + 1)

RECURSIVE final_state_loop(_, _, _)
final_state_loop(current_state, w, i) ==
    IF i > Len(w) THEN OkState(current_state)
    ELSE LET symbol == w[i]
         IN  IF symbol \notin Sigma THEN Raise("SymbolNotInAlphabet")
             ELSE LET next_state == transition(current_state, symbol)
                  IN  IF next_state = None THEN Raise("UndefinedTransition")
                      ELSE final_state_loop(next_state, w, i + 1)

\* final_state with a membership check of the start state in front.
final_state_checked(q, w) ==
    IF q \notin Q THEN Raise("UndefinedTransition") ELSE final_state_loop(q, w, 1)

final_state(q, w) == final_state_loop(q, w, 1)

(***************************************************************************)
(* AFD.derivation, lines 79-93.                                            *)
(***************************************************************************)
\* The loop appending (q, symbol, next_state) with the start state q.
RECURSIVE derivation_loop_start(_, _, _, _)
derivation_loop_start(derivation_steps, current_state, w, i) ==
    IF i > Len(w) THEN OkTrace(derivation_steps)
    ELSE LET symbol == w[i]
         IN  IF symbol \notin Sigma THEN Raise("SymbolNotInAlphabet")
             ELSE LET next_state == transition(current_state, symbol)
                  IN  IF next_state = None THEN Raise("UndefinedTransition")
                      ELSE derivation_loop_start(
                               Append(derivation_steps,
                                      <<IF derivation_steps = <<>> THEN current_state
                                        ELSE derivation_steps[1][1],
                                        symbol, next_state>>),
                               next_state, w, i + 1)

\* The loop without the alphabet check.
RECURSIVE derivation_loop_nocheck(_, _, _, _)
derivation_loop_nocheck(derivation_steps, current_state, w, i) ==
    IF i > Len(w) THEN OkTrace(derivation_steps)
    ELSE LET symbol == w[i]
             next_state == transition(current_state, symbol)
         IN  IF next_state = None THEN Raise("UndefinedTransition")
             ELSE derivation_loop_nocheck(
                      Append(derivation_steps, <<current_state, symbol, next_state>>),
                      next_state, w, i + 1)

RECURSIVE derivation_loop(_, _, _, _)
derivation_loop(derivation_steps, current_state, w, i) ==
    IF i > Len(w) THEN OkTrace(derivation_steps)
    ELSE LET symbol == w[i]
         IN  IF symbol \notin Sigma THEN Raise("SymbolNotInAlphabet")
             ELSE LET next_state == transition(current_state, symbol)
                  IN  IF next_state = None THEN Raise("UndefinedTransition")
                      ELSE derivation_loop(
                               Append(derivation_steps,
                                      <<current_state, symbol, next_state>>),
                               next_state, w, i + 1)

derivation(q, w) == derivation_loop(<<>>, q, w, 1)

(***************************************************************************)
(* AFD.accepted, lines 107-114.                                            *)
(***************************************************************************)
\* "if not F": an empty override replaced by self.F as well.
accepted_falsy(q, w, Fov) ==
    LET Fset == IF Fov.none \/ Fov.set = {} THEN F ELSE Fov.set
        r == final_state(q, w)
    IN  IF r.kind = "ok" THEN OkBool(r.state \in Fset) ELSE OkBool(FALSE)

accepted(q, w, Fov) ==
    LET Fset == IF Fov.none THEN F ELSE Fov.set
        r == final_state(q, w)
    IN  IF r.kind = "ok" THEN OkBool(r.state \in Fset) ELSE OkBool(FALSE)

(***************************************************************************)
(* The calls.  A call runs to its return or its raise in one step: the     *)
(* methods take no input and yield to no other code while they run.        *)
(***************************************************************************)
Starts == Labels \cup Q \cup {q0}
Overrides == {NoOverride} \cup {Override(S) : S \in SUBSET (Labels \cup Q)}

\* A kept outcome is marked once a further call has been made.
Later(m) == [m EXCEPT !.later = m.set]

Transition(q, a) ==
    /\ pc = "idle"
    /\ call' = [NoCall EXCEPT !.op = "transition", !.q = q, !.a = a]
    /\ result' = OkState(transition(q, a))
    /\ pc' = "done"
    /\ memo' = Later(memo)
    /\ UNCHANGED <<Q, Sigma, q0, F, delta, deltaArg>>

FinalState(q, w) ==
    /\ pc = "idle"
    /\ call' = [NoCall EXCEPT !.op = "final_state", !.q = q, !.w = w]
    /\ result' = final_state(q, w)
    /\ pc' = "done"
    /\ memo' = Later(memo)
    /\ UNCHANGED <<Q, Sigma, q0, F, delta, deltaArg>>

Derivation(q, w) ==
    /\ pc = "idle"
    /\ call' = [NoCall EXCEPT !.op = "derivation", !.q = q, !.w = w]
    /\ result' = derivation(q, w)
    /\ pc' = "done"
    /\ memo' = Later(memo)
    /\ UNCHANGED <<Q, Sigma, q0, F, delta, deltaArg>>

\* accepted with "self.F = F" in place of the local rebinding of F.
AcceptedStoresF(q, w, Fov) ==
    /\ pc = "idle"
    /\ call' = [NoCall EXCEPT !.op = "accepted", !.q = q, !.w = w, !.Fov = Fov]
    /\ result' = accepted(q, w, Fov)
    /\ pc' = "done"
    /\ F' = IF Fov.none THEN F ELSE Fov.set
    /\ memo' = Later(memo)
    /\ UNCHANGED <<Q, Sigma, q0, delta, deltaArg>>

Accepted(q, w, Fov) ==
    /\ pc = "idle"
    /\ call' = [NoCall EXCEPT !.op = "accepted", !.q = q, !.w = w, !.Fov = Fov]
    /\ result' = accepted(q, w, Fov)
    /\ pc' = "done"
    /\ memo' = Later(memo)
    /\ UNCHANGED <<Q, Sigma, q0, F, delta, deltaArg>>

\* The caller takes the value (or catches the error) and goes on.
Return ==
    /\ pc = "done"
    /\ pc' = "idle"
    /\ call' = NoCall
    /\ result' = NoResult
    /\ UNCHANGED <<Q, Sigma, q0, F, delta, deltaArg, memo>>

\* The caller keeps the outcome of a call while it makes further calls.
Remember ==
    /\ pc = "done"
    /\ ~memo.set
    /\ memo' = [set |-> TRUE, later |-> FALSE, call |-> call, result |-> result]
    /\ UNCHANGED <<Q, Sigma, q0, F, delta, deltaArg, pc, call, result>>

Query(n) ==
    \/ \E q \in Starts, a \in Symbols : Transition(q, a)
    \/ \E q \in Starts, w \in Words(n) : FinalState(q, w)
    \/ \E q \in Starts, w \in Words(n) : Derivation(q, w)
    \/ \E q \in Starts, w \in Words(n), Fov \in Overrides : Accepted(q, w, Fov)

(***************************************************************************)
(* Constructed automata.  Every specification starts right after           *)
(* AFD.__init__ has returned, with no call made yet.                       *)
(***************************************************************************)
Constructed(argQ, argSigma, argq0, argF, argDelta) ==
    /\ Q = argQ
    /\ Sigma = argSigma
    /\ q0 = argq0
    /\ F = argF
    /\ deltaArg = argDelta
    /\ delta = AFD_init_delta(argDelta)
    /\ pc = "idle"
    /\ call = NoCall
    /\ result = NoResult
    /\ memo = NoMemo

PartialMaps(S, A) == UNION {[K -> Targets] : K \in SUBSET (S \X A)}
TripleLists(n) == UNION {[1..k -> Labels \X Symbols \X Targets] : k \in 0..n}

\* Any automaton over the universe, delta given as a dict: any alphabet, any
\* accepting set, any partial table (targets None included), with q0 in Q
\* or outside it.  The two labels are interchangeable, so q0 is "q0".
Init ==
    \E argQ \in {Labels, {"q1"}}, argSigma \in SUBSET Symbols, argF \in SUBSET Labels,
       m \in PartialMaps(Labels, Symbols) :
        Constructed(argQ, argSigma, "q0", argF, DictArg(m))

Next == Query(MaxLen) \/ Return

Spec == Init /\ [][Next]_vars

\* Any automaton whose delta is given as a list of triples.
InitBuild ==
    \E t \in TripleLists(MaxTriples) :
        Constructed(Labels, Symbols, "q0", {"q1"}, ListArg(t))

NextBuild ==
    \/ \E q \in Starts, a \in Symbols : Transition(q, a)
    \/ Return

SpecBuild == InitBuild /\ [][NextBuild]_vars

\* ejemplo_afd_1, lines 185-200.
ejemplo_afd_1_delta_wrong ==
    << <<"q0", "0", "q1">>, <<"q0", "1", "q0">>, <<"q1", "0", "q1">>,
       <<"q1", "1", "q2">>, <<"q2", "0", "q1">>, <<"q2", "1", "q2">> >>

ejemplo_afd_1_delta ==
    << <<"q0", "0", "q1">>, <<"q0", "1", "q0">>, <<"q1", "0", "q1">>,
       <<"q1", "1", "q2">>, <<"q2", "0", "q1">>, <<"q2", "1", "q0">> >>

InitEj1 ==
    Constructed({"q0", "q1", "q2"}, {"0", "1"}, "q0", {"q2"},
                ListArg(ejemplo_afd_1_delta))

NextEj1 == Query(MaxLenEj) \/ Return

SpecEj1 == InitEj1 /\ [][NextEj1]_vars

\* Automata over the one-symbol alphabet {"0"}, with calls whose outcome is kept.
InitRepeat ==
    \E m \in PartialMaps(Labels, {"0"}) :
        Constructed(Labels, {"0"}, "q0", {"q1"}, DictArg(m))

NextRepeat == Query(MaxLen) \/ Return \/ Remember

SpecRepeat == InitRepeat /\ [][NextRepeat]_vars

(***************************************************************************)
(* Runs, stated from the table alone.  A run of w from q is the sequence   *)
(* of states r[1] = q, r[k+1] = the table's value for (r[k], w[k]), every  *)
(* symbol in the alphabet and every value a state.                         *)
(***************************************************************************)
Reach == (Starts \cup {delta[k] : k \in DOMAIN delta}) \ {None}

HasMove(s, a) == <<s, a>> \in DOMAIN delta /\ delta[<<s, a>>] # None

IsRun(r, q, w) ==
    /\ r[1] = q
    /\ \A k \in 1..Len(w) :
         /\ w[k] \in Sigma
         /\ HasMove(r[k], w[k])
         /\ r[k + 1] = delta[<<r[k], w[k]>>]

RunsOf(q, w) == {r \in [1..(Len(w) + 1) -> Reach] : IsRun(r, q, w)}

Prefix(w, n) == SubSeq(w, 1, n)

\* The positions of w that are reached from q and cannot be consumed there.
Stuck(q, w) ==
    {i \in 1..Len(w) :
        \E r \in RunsOf(q, Prefix(w, i - 1)) :
            w[i] \notin Sigma \/ ~HasMove(r[i], w[i])}

\* The positions reached from q at which the table has no entry at all.
NoEntry(q, w) ==
    {i \in 1..Len(w) :
        \E r \in RunsOf(q, Prefix(w, i - 1)) : <<r[i], w[i]>> \notin DOMAIN delta}

Min(S) == CHOOSE i \in S : \A j \in S : i <= j

InEffect(Fov) == IF Fov.none THEN F ELSE Fov.set

Done(op) == pc = "done" /\ call.op = op

(***************************************************************************)
(* C1.  accepted(q, w, F) returns true exactly when final_state(q, w)      *)
(* succeeds with a state in the accepting set in effect: the override      *)
(* whenever one is given, the empty override included (under which it is   *)
(* false), self.F otherwise.  When final_state raises either error,        *)
(* accepted returns false and raises nothing.                              *)
(***************************************************************************)
C1_AcceptedIffFinalInEffect ==
    Done("accepted") =>
        LET fs == final_state(call.q, call.w)
        IN  /\ result.kind = "ok"
            /\ result.acc = (fs.kind = "ok" /\ fs.state \in InEffect(call.Fov))
            /\ result.acc = (\E r \in RunsOf(call.q, call.w) :
                                r[Len(call.w) + 1] \in InEffect(call.Fov))
            /\ fs.kind \in {"SymbolNotInAlphabet", "UndefinedTransition"}
                   => ~result.acc
            /\ call.Fov = Override({}) => ~result.acc

\* An empty override on a run that ends in a state of self.F: not accepted.
C1_Witness ==
    /\ Done("accepted")
    /\ call.Fov = Override({})
    /\ Len(call.w) = 2
    /\ final_state(call.q, call.w).kind = "ok"
    /\ final_state(call.q, call.w).state \in F
    /\ ~result.acc

(***************************************************************************)
(* C3.  final_state(q, w) raises exactly when some position of w, reached  *)
(* by the table from q, cannot be consumed; the error is that of the       *)
(* earliest such position: SymbolNotInAlphabet when the symbol is outside  *)
(* the alphabet, whether or not the table has an entry for it, otherwise   *)
(* UndefinedTransition.  What follows that position changes nothing, and   *)
(* no state comes back with an error.                                      *)
(***************************************************************************)
C3_FirstErrorReported ==
    Done("final_state") =>
        LET bad == Stuck(call.q, call.w)
        IN  /\ (result.kind # "ok") = (bad # {})
            /\ bad # {} =>
                 /\ result.kind = IF call.w[Min(bad)] \notin Sigma
                                  THEN "SymbolNotInAlphabet"
                                  ELSE "UndefinedTransition"
                 /\ result.state = None
            /\ bad = {} => \E r \in RunsOf(call.q, call.w) :
                              result.state = r[Len(call.w) + 1]

\* The second symbol is outside the alphabet although the table has an entry
\* for it from the state reached.
C3_Witness ==
    /\ Done("final_state")
    /\ Len(call.w) = 2
    /\ Stuck(call.q, call.w) = {2}
    /\ call.w[2] \notin Sigma
    /\ \E r \in RunsOf(call.q, Prefix(call.w, 1)) : HasMove(r[2], call.w[2])
    /\ result.kind = "SymbolNotInAlphabet"

(***************************************************************************)
(* C4.  derivation(q, w) and final_state(q, w) have the same outcome: both *)
(* succeed or both raise the same error; on success final_state(q, w) is   *)
(* the third component of the last step of the derivation, or q when w is  *)
(* empty.                                                                  *)
(***************************************************************************)
C4_DerivationAgreesWithFinalState ==
    Done("derivation") =>
        LET fs == final_state(call.q, call.w)
        IN  /\ result.kind = fs.kind
            /\ result.kind = "ok" =>
                 fs.state = IF call.w = <<>> THEN call.q
                            ELSE result.trace[Len(result.trace)][3]

\* A derivation of two steps that moves to another state.
C4_Witness ==
    /\ Done("derivation")
    /\ result.kind = "ok"
    /\ Len(call.w) = 2
    /\ result.trace[2][3] # call.q

(***************************************************************************)
(* C6.  On the empty input, from any start label (a member of Q or not,    *)
(* with transitions or without): final_state returns the start label,      *)
(* derivation returns the empty list, neither raises, and accepted tells   *)
(* whether the start label is in the accepting set in effect.              *)
(***************************************************************************)
C6_EmptyInputIsIdentity ==
    (pc = "done" /\ call.w = <<>>) =>
        /\ call.op = "final_state" => result = OkState(call.q)
        /\ call.op = "derivation" => result = OkTrace(<<>>)
        /\ call.op = "accepted" => result = OkBool(call.q \in InEffect(call.Fov))

\* The empty input from a label outside Q that has no entry in the table.
C6_Witness ==
    /\ Done("final_state")
    /\ call.w = <<>>
    /\ call.q \notin Q
    /\ \A a \in Symbols : <<call.q, a>> \notin DOMAIN delta
    /\ result.state = call.q

(***************************************************************************)
(* C10.  A derivation that succeeds is a run: it has Len(w) steps; step i  *)
(* carries the symbol w[i] and, as next state, the table's value for its   *)
(* state and w[i]; the first step starts in q; each step starts where the  *)
(* step before it ended.                                                   *)
(***************************************************************************)
C10_DerivationIsARun ==
    (Done("derivation") /\ result.kind = "ok") =>
        LET t == result.trace
        IN  /\ Len(t) = Len(call.w)
            /\ \A i \in 1..Len(t) :
                 /\ t[i][2] = call.w[i]
                 /\ <<t[i][1], call.w[i]>> \in DOMAIN delta
                 /\ t[i][3] = delta[<<t[i][1], call.w[i]>>]
                 /\ i = 1 => t[i][1] = call.q
                 /\ i < Len(t) => t[i][3] = t[i + 1][1]

\* Two steps, the first of which leaves the start state.
C10_Witness ==
    /\ Done("derivation")
    /\ result.kind = "ok"
    /\ Len(result.trace) = 2
    /\ result.trace[1][3] # call.q
    /\ result.trace[2][1] = result.trace[1][3]

(***************************************************************************)
(* C2, as stated.  For an automaton whose q0 is not in Q, every            *)
(* final_state, derivation and accepted call that starts from q0 fails, on *)
(* any input, the empty one included: no state, no trace and no acceptance *)
(* comes back.                                                             *)
(***************************************************************************)
C2_DanglingInitialAlwaysFails ==
    (pc = "done" /\ q0 \notin Q /\ call.q = q0) =>
        /\ call.op \in {"final_state", "derivation"} => result.kind # "ok"
        /\ call.op = "accepted" => ~result.acc

(***************************************************************************)
(* C2, amended.  For an automaton whose q0 is not in Q and is the state of *)
(* no key of the table, a call from q0 on a non-empty input fails          *)
(* (final_state and derivation raise, accepted returns false); on the      *)
(* empty input it succeeds: final_state returns q0, derivation the empty   *)
(* list, accepted whether q0 is in the accepting set in effect.            *)
(***************************************************************************)
C2_DanglingInitialFailsOnNonEmptyInput ==
    (/\ pc = "done"
     /\ q0 \notin Q
     /\ call.q = q0
     /\ \A a \in Symbols : <<q0, a>> \notin DOMAIN delta) =>
        IF call.w = <<>>
        THEN /\ call.op = "final_state" => result = OkState(q0)
             /\ call.op = "derivation" => result = OkTrace(<<>>)
             /\ call.op = "accepted" => result.acc = (q0 \in InEffect(call.Fov))
        ELSE /\ call.op \in {"final_state", "derivation"} => result.kind # "ok"
             /\ call.op = "accepted" => ~result.acc

\* A non-empty input within the alphabet, from a q0 outside Q with no entry.
C2_Witness ==
    /\ Done("final_state")
    /\ q0 \notin Q
    /\ call.q = q0
    /\ \A a \in Symbols : <<q0, a>> \notin DOMAIN delta
    /\ Len(call.w) = 2
    /\ call.w[1] \in Sigma
    /\ result.kind = "UndefinedTransition"

(***************************************************************************)
(* C8, as stated.  transition(q, a) returns the table's value whenever     *)
(* (q, a) is a key, whatever that value is, and returns "no transition"    *)
(* (None) exactly when (q, a) is no key; so final_state and derivation     *)
(* raise UndefinedTransition only at a position whose (state, symbol) pair *)
(* has no entry in the table.                                              *)
(***************************************************************************)
C8_NoTransitionIffNoEntry ==
    /\ Done("transition") =>
         /\ <<call.q, call.a>> \in DOMAIN delta
                => result.state = delta[<<call.q, call.a>>]
         /\ (result.state = None) = (<<call.q, call.a>> \notin DOMAIN delta)
    /\ (/\ pc = "done"
        /\ call.op \in {"final_state", "derivation"}
        /\ result.kind = "UndefinedTransition")
           => NoEntry(call.q, call.w) # {}

(***************************************************************************)
(* C5.  An automaton built from a list of triples has as table keys        *)
(* exactly the (state, symbol) pairs of the list, each mapped to the       *)
(* target of the last triple with that pair.                               *)
(***************************************************************************)
C5_LastTripleWins ==
    deltaArg.shape = "list" =>
        LET t == deltaArg.triples
            At(k) == {i \in 1..Len(t) : <<t[i][1], t[i][2]>> = k}
            Last(S) == CHOOSE i \in S : \A j \in S : j <= i
        IN  /\ DOMAIN delta = {<<t[i][1], t[i][2]>> : i \in 1..Len(t)}
            /\ \A k \in DOMAIN delta : delta[k] = t[Last(At(k))][3]

\* Two triples for one pair with different targets; a lookup of the pair
\* gives the later one.
C5_Witness ==
    /\ Done("transition")
    /\ deltaArg.shape = "list"
    /\ \E i, j \in 1..Len(deltaArg.triples) :
         /\ i < j
         /\ deltaArg.triples[i][1] = call.q
         /\ deltaArg.triples[i][2] = call.a
         /\ deltaArg.triples[j][1] = call.q
         /\ deltaArg.triples[j][2] = call.a
         /\ deltaArg.triples[i][3] # deltaArg.triples[j][3]
         /\ \A k \in (j + 1)..Len(deltaArg.triples) :
              <<deltaArg.triples[k][1], deltaArg.triples[k][2]>> # <<call.q, call.a>>
         /\ result.state = deltaArg.triples[j][3]

(***************************************************************************)
(* C9.  On the automaton of ejemplo_afd_1, for every input over {0, 1} up  *)
(* to the length bound: accepted(q0, w) is true exactly when w ends with   *)
(* 0 then 1, and final_state and derivation from q0 never raise.           *)
(***************************************************************************)
EndsWith01(w) == Len(w) >= 2 /\ w[Len(w) - 1] = "0" /\ w[Len(w)] = "1"

C9_Ejemplo1AcceptsSuffix01 ==
    (pc = "done" /\ call.q = q0) =>
        /\ (call.op = "accepted" /\ call.Fov.none) => result.acc = EndsWith01(call.w)
        /\ call.op \in {"final_state", "derivation"} => result.kind = "ok"
        /\ (call.op = "derivation" /\ call.w = <<"1", "0", "1">>) =>
               result.trace = << <<"q0", "1", "q0">>, <<"q0", "0", "q1">>,
                                 <<"q1", "1", "q2">> >>

\* The input 0101: a visit to q2 before the accepted end.
C9_Witness ==
    /\ Done("accepted")
    /\ call.q = q0
    /\ call.Fov.none
    /\ call.w = <<"0", "1", "0", "1">>
    /\ result.acc

(***************************************************************************)
(* C7.  No call changes Q, Sigma, q0, F or delta, whatever it returns or   *)
(* raises and whether or not it is given an override; so a call repeated   *)
(* with the same arguments after other calls has the same outcome.         *)
(***************************************************************************)
C7_CallsLeaveAutomatonUnchanged ==
    [][/\ afd' = afd
       /\ deltaArg' = deltaArg
       /\ (pc' = "done" /\ memo'.set /\ memo'.call = call')
              => result' = memo'.result]_vars

\* An accepted call with an override other than self.F, repeated after
\* another call was made.
C7_Witness ==
    /\ Done("accepted")
    /\ memo.set
    /\ memo.later
    /\ memo.call = call
    /\ ~call.Fov.none
    /\ call.Fov.set # F
    /\ result = memo.result
    /\ result.acc

====
